---- MODULE Spec2Model ----
(***************************************************************************)
(* NubDB Rust client (clients/rust/nubdb.rs): one blocking client on one   *)
(* TCP stream, a line protocol, one reply line per command line.           *)
(*                                                                         *)
(* Text is modelled as TLA+ strings, character by character: a command or  *)
(* reply line is the string of its bytes, the two directions of the stream *)
(* are strings of bytes in flight.                                         *)
(***************************************************************************)
EXTENDS Integers, Sequences, FiniteSets, TLC

(***************************************************************************)
(* Bounds of the model.                                                    *)
(***************************************************************************)
\* command lines on the wire whose reply lines are still unread, at most
MaxOwed == 2
\* a compliant server's counters stay within -MaxCounter .. MaxCounter
MaxCounter == 2
\* how many characters of a reply a dying server may still get out
MaxPartial == 2

(***************************************************************************)
(* Text helpers: the str methods the client uses.                          *)
(***************************************************************************)
Ch(s, i) == SubSeq(s, i, i)

\* char::is_whitespace, on the characters of the model's alphabet
IsWs(ch) == ch \in {" ", "\t", "\n", "\r"}

IsDigit(ch) == ch \in {"0", "1", "2", "3", "4", "5", "6", "7", "8", "9"}

\* char::to_digit(10)
DigitVal(ch) ==
  CASE ch = "0" -> 0 [] ch = "1" -> 1 [] ch = "2" -> 2 [] ch = "3" -> 3
    [] ch = "4" -> 4 [] ch = "5" -> 5 [] ch = "6" -> 6 [] ch = "7" -> 7
    [] ch = "8" -> 8 [] ch = "9" -> 9

\* the decimal digit d as a character
DigitCh(d) == Ch("0123456789", d + 1)

RECURSIVE TrimStartBy(_, _)
TrimStartBy(s, drop) ==
  IF Len(s) > 0 /\ Ch(s, 1) \in drop
  THEN TrimStartBy(SubSeq(s, 2, Len(s)), drop)
  ELSE s

RECURSIVE TrimEndBy(_, _)
TrimEndBy(s, drop) ==
  IF Len(s) > 0 /\ Ch(s, Len(s)) \in drop
  THEN TrimEndBy(SubSeq(s, 1, Len(s) - 1), drop)
  ELSE s

\* str::trim: every leading and trailing whitespace character goes
Trim(s) == TrimEndBy(TrimStartBy(s, {" ", "\t", "\n", "\r"}), {" ", "\t", "\n", "\r"})

\* str::trim_matches('"'): every leading and trailing double quote goes
TrimMatchesQuote(s) == TrimEndBy(TrimStartBy(s, {"\""}), {"\""})

\* position of the first character of s that is in set, 0 when there is none
RECURSIVE FindFrom(_, _, _)
FindFrom(s, set, i) ==
  IF i > Len(s) THEN 0
  ELSE IF Ch(s, i) \in set THEN i
  ELSE FindFrom(s, set, i + 1)

Find(s, set) == FindFrom(s, set, 1)

\* str::split_whitespace().collect::<Vec<_>>().first(): <<>> or <<token>>
FirstToken(s) ==
  LET t == TrimStartBy(s, {" ", "\t", "\n", "\r"})
      e == Find(t, {" ", "\t", "\n", "\r"})
  IN  IF Len(t) = 0 THEN <<>>
      ELSE IF e = 0 THEN <<t>>
      ELSE <<SubSeq(t, 1, e - 1)>>

(***************************************************************************)
(* Decimal numbers.  An integer is carried as its canonical decimal text   *)
(* ("0", "17", "-3"): the 64-bit limits do not fit the integers of TLC,    *)
(* so magnitudes are compared as digit strings.                            *)
(***************************************************************************)
I64MaxMag == "9223372036854775807"
I64MinMag == "9223372036854775808"
U64MaxMag == "18446744073709551615"
U32MaxMag == "4294967295"

\* a < b for canonical digit strings of equal length
RECURSIVE DigitsLess(_, _)
DigitsLess(a, b) ==
  IF Len(a) = 0 THEN FALSE
  ELSE IF DigitVal(Ch(a, 1)) # DigitVal(Ch(b, 1))
       THEN DigitVal(Ch(a, 1)) < DigitVal(Ch(b, 1))
       ELSE DigitsLess(SubSeq(a, 2, Len(a)), SubSeq(b, 2, Len(b)))

\* a <= b for canonical digit strings (no leading zeros)
MagLeq(a, b) ==
  \/ Len(a) < Len(b)
  \/ Len(a) = Len(b) /\ (a = b \/ DigitsLess(a, b))

\* result * 10 + digit on a canonical magnitude
MulAddDigit(mag, ch) == IF mag = "0" THEN ch ELSE mag \o ch

\* the digit loop of from_str_radix: checked_mul(10) then checked_add/sub of
\* the digit; "bad" stands for the InvalidDigit error, "overflow" for
\* PosOverflow / NegOverflow
RECURSIVE AccumDigits(_, _, _)
AccumDigits(acc, rest, limit) ==
  IF Len(rest) = 0 THEN acc
  ELSE IF ~IsDigit(Ch(rest, 1)) THEN "bad"
  ELSE LET nxt == MulAddDigit(acc, Ch(rest, 1))
       IN  IF ~MagLeq(nxt, limit) THEN "overflow"
           ELSE AccumDigits(nxt, SubSeq(rest, 2, Len(rest)), limit)

ParseOk(text) == [ok |-> TRUE, val |-> text]
ParseErr == [ok |-> FALSE, val |-> ""]

\* str::parse::<i64>: optional sign, then one or more digits, in range
ParseI64(s) ==
  IF Len(s) = 0 THEN ParseErr
  ELSE LET neg    == Ch(s, 1) = "-"
           signed == Ch(s, 1) \in {"-", "+"}
           digits == IF signed THEN SubSeq(s, 2, Len(s)) ELSE s
           mag    == AccumDigits("0", digits, IF neg THEN I64MinMag ELSE I64MaxMag)
       IN  IF Len(digits) = 0 \/ mag \in {"bad", "overflow"} THEN ParseErr
           ELSE IF neg /\ mag # "0" THEN ParseOk("-" \o mag)
           ELSE ParseOk(mag)

\* str::parse::<usize>: optional '+', then one or more digits, in range; the
\* range is the target's pointer width
ParseUsize(s, maxMag) ==
  IF Len(s) = 0 THEN ParseErr
  ELSE LET digits == IF Ch(s, 1) = "+" THEN SubSeq(s, 2, Len(s)) ELSE s
           mag    == AccumDigits("0", digits, maxMag)
       IN  IF Len(digits) = 0 \/ mag \in {"bad", "overflow"} THEN ParseErr
           ELSE ParseOk(mag)

\* Display for unsigned integers
RECURSIVE NatToDecimal(_)
NatToDecimal(n) ==
  IF n < 10 THEN DigitCh(n)
  ELSE NatToDecimal(n \div 10) \o DigitCh(n % 10)

\* Display for signed integers
ToDecimal(n) == IF n < 0 THEN "-" \o NatToDecimal(0 - n) ELSE NatToDecimal(n)

(***************************************************************************)
(* Inputs.                                                                 *)
(***************************************************************************)
\* the threads of control that may hold the client
Threads == {1, 2}

\* the well-formed keys: one token of the command grammar each
GoodKeys == {"a"}

\* a key with a blank in it, and one with a line break in it
BlankKey == "a b"
BreakKey == "a\nb"

Call(name, key, value, ttl) == [name |-> name, key |-> key, value |-> value, ttl |-> ttl]

\* the calls made of a client whose server is the key-value store; the ttl of
\* set is <<>> for None and <<t>> for Some(t)
Calls ==
  {Call("set", "a", v, <<>>) : v \in {"x", "", " y ", "q\"", "p\nq"}}
  \cup {Call("set", "a", "x", <<30>>), Call("set", BlankKey, "x", <<>>)}
  \cup {Call("get", k, "", <<>>) : k \in {"a", BlankKey, BreakKey}}
  \cup {Call(n, "a", "", <<>>) : n \in {"delete", "exists", "incr", "decr"}}
  \cup {Call(n, "", "", <<>>) : n \in {"size", "clear", "close"}}

\* the calls made of a client whose server answers with any line
AnyCalls ==
  {Call("set", "a", "x", <<>>), Call("set", "a", "x", <<30>>)}
  \cup {Call(n, "a", "", <<>>) : n \in {"get", "delete", "exists", "incr", "decr"}}
  \cup {Call(n, "", "", <<>>) : n \in {"size", "clear", "close"}}

\* the key or the value passed holds a line break
HasBreak(o) == Find(o.key \o o.value, {"\n"}) > 0

NoCall == [name |-> "none", key |-> "", value |-> "", ttl |-> <<>>]

\* reply lines of a server that answers every command line with one line of
\* its own choosing
ReplyLines ==
  { "OK", " OK", "ok", "ERROR", "(nil)", "\"(nil)\"", "\"x\"", "\"\"", "",
    "\"q\"\"", "x\"", "\"",
    "1", "0", " 1 ", "01", "1 2", "-1", "+5", "-0", "007", "-", "1.5", "abc",
    "3 keys", "\t7 keys\r", "x 3", "-2 keys",
    "9223372036854775807", "9223372036854775808",
    "-9223372036854775808", "-9223372036854775809",
    "4294967295", "4294967296",
    "18446744073709551615", "18446744073709551616" }

(***************************************************************************)
(* Results: Result<T, std::io::Error>, every T carried as text.            *)
(***************************************************************************)
Ok(ty, val) == [tag |-> "Ok", ty |-> ty, val |-> val]
Err(kind) == [tag |-> "Err", ty |-> kind, val |-> ""]
NoResult == [tag |-> "none", ty |-> "", val |-> ""]

OkBool(b) == Ok("bool", IF b THEN "true" ELSE "false")
OkNone == Ok("none", "")
OkSome(s) == Ok("some", s)
OkUnit == Ok("unit", "")

\* the spec's error taxonomy over std::io::ErrorKind
ErrClass(r) ==
  CASE r.tag # "Err" -> "none"
    [] r.ty = "InvalidData" -> "DecodeError"
    [] r.ty \in {"BrokenPipe", "ConnectionReset"} -> "TransportError"
    [] r.ty = "UnexpectedEof" -> "ProtocolError"
    [] OTHER -> "ConnectionError"

(***************************************************************************)
(* Encoders: the command line of each public operation.                    *)
(***************************************************************************)
\* set with the time to live written inside the quotes
CmdSet_TtlInside(key, value, ttl) ==
  IF ttl = <<>>
  THEN "SET " \o key \o " \"" \o value \o "\""
  ELSE "SET " \o key \o " \"" \o value \o " " \o NatToDecimal(ttl[1]) \o "\""

CmdSet(key, value, ttl) ==
  IF ttl = <<>>
  THEN "SET " \o key \o " \"" \o value \o "\""
  ELSE "SET " \o key \o " \"" \o value \o "\" " \o NatToDecimal(ttl[1])

\* get that cuts its key at the first line break
CmdGet_FirstLine(key) ==
  "GET " \o (IF Find(key, {"\n"}) = 0 THEN key ELSE SubSeq(key, 1, Find(key, {"\n"}) - 1))

CmdGet(key) == "GET " \o key
CmdDelete(key) == "DELETE " \o key
CmdExists(key) == "EXISTS " \o key
CmdIncr(key) == "INCR " \o key
\* decr copied from incr with the verb left as it was
CmdDecr_AsIncr(key) == "INCR " \o key

CmdDecr(key) == "DECR " \o key
CmdSize == "SIZE"
CmdClear == "CLEAR"
CmdClose == "QUIT"

Command(o) ==
  CASE o.name = "set" -> CmdSet(o.key, o.value, o.ttl)
    [] o.name = "get" -> CmdGet(o.key)
    [] o.name = "delete" -> CmdDelete(o.key)
    [] o.name = "exists" -> CmdExists(o.key)
    [] o.name = "incr" -> CmdIncr(o.key)
    [] o.name = "decr" -> CmdDecr(o.key)
    [] o.name = "size" -> CmdSize
    [] o.name = "clear" -> CmdClear
    [] o.name = "close" -> CmdClose

(***************************************************************************)
(* Decoders: the result of each public operation from the trimmed reply.   *)
(***************************************************************************)
\* set taking every reply but ERROR for success
DecodeSet_NotError(response) == OkBool(response # "ERROR")

DecodeSet(response) == OkBool(response = "OK")

\* get taking one quote off each end where trim_matches takes them all
DecodeGet_OnePair(response) ==
  IF response = "(nil)" THEN OkNone
  ELSE IF Len(response) >= 2 /\ Ch(response, 1) = "\"" /\ Ch(response, Len(response)) = "\""
       THEN OkSome(SubSeq(response, 2, Len(response) - 1))
       ELSE OkSome(response)

\* get without the trim_matches('"') of line 53
DecodeGet_Unstripped(response) ==
  IF response = "(nil)" THEN OkNone ELSE OkSome(response)

\* get without the "(nil)" test of line 50
DecodeGet_NoSentinel(response) == OkSome(TrimMatchesQuote(response))

DecodeGet(response) ==
  IF response = "(nil)" THEN OkNone ELSE OkSome(TrimMatchesQuote(response))

DecodeDelete(response) == OkBool(response = "OK")

\* exists as "anything but 0"
DecodeExists_NotZero(response) == OkBool(response # "0")

DecodeExists(response) == OkBool(response = "1")

\* incr with unwrap_or(0) in place of map_err
DecodeIncr_Lenient(response) ==
  LET p == ParseI64(response)
  IN  IF p.ok THEN Ok("i64", p.val) ELSE Ok("i64", "0")

DecodeIncr(response) ==
  LET p == ParseI64(response)
  IN  IF p.ok THEN Ok("i64", p.val) ELSE Err("InvalidData")

DecodeDecr(response) ==
  LET p == ParseI64(response)
  IN  IF p.ok THEN Ok("i64", p.val) ELSE Err("InvalidData")

\* size parsing the whole reply instead of its first token
DecodeSize_Whole(response, maxMag) ==
  IF response # ""
  THEN LET p == ParseUsize(response, maxMag)
       IN  IF p.ok THEN Ok("usize", p.val) ELSE Err("InvalidData")
  ELSE Ok("usize", "0")

DecodeSize(response, maxMag) ==
  LET parts == FirstToken(response)
  IN  IF parts # <<>>
      THEN LET p == ParseUsize(parts[1], maxMag)
           IN  IF p.ok THEN Ok("usize", p.val) ELSE Err("InvalidData")
      ELSE Ok("usize", "0")

DecodeClear(response) == OkBool(response = "OK")

DecodeClose(response) == OkUnit

Decode(o, response, maxMag) ==
  CASE o.name = "set" -> DecodeSet(response)
    [] o.name = "get" -> DecodeGet(response)
    [] o.name = "delete" -> DecodeDelete(response)
    [] o.name = "exists" -> DecodeExists(response)
    [] o.name = "incr" -> DecodeIncr(response)
    [] o.name = "decr" -> DecodeDecr(response)
    [] o.name = "size" -> DecodeSize(response, maxMag)
    [] o.name = "clear" -> DecodeClear(response)
    [] o.name = "close" -> DecodeClose(response)

(***************************************************************************)
(* send_command, in pieces.                                                *)
(***************************************************************************)
\* a writeln! after a command that already carries its line feed
WireBytes_Doubled(cmd) == cmd \o "\n\n"

\* writeln!(self.stream, "{}", cmd): the bytes put on the wire
WireBytes(cmd) == cmd \o "\n"

\* how many command lines these bytes are to a server that reads line by line
RECURSIVE CountLines(_)
CountLines(bytes) ==
  LET e == Find(bytes, {"\n"})
  IN  IF e = 0 THEN 0 ELSE 1 + CountLines(SubSeq(bytes, e + 1, Len(bytes)))

\* a read that stops in front of the line feed and leaves it in the buffer
ReadLineLen_BeforeFeed(buf) == Find(buf, {"\n"}) - 1

\* read_line: how many buffered bytes one call takes when a line is complete
\* (up to and including the first line feed); 0 when no line is complete
ReadLineLen(buf) == Find(buf, {"\n"})

\* response.trim().to_string()
Response(raw) == Trim(raw)

(***************************************************************************)
(* The server: an external collaborator.  It reads one command line at a   *)
(* time and answers each with one reply line, in order.                    *)
(***************************************************************************)
AllDigits(s) == \A i \in 1..Len(s) : IsDigit(Ch(s, i))

\* a key token of the command grammar: not empty, no blank
SrvKeyOk(k) == Len(k) > 0 /\ Find(k, {" ", "\t", "\r"}) = 0

RECURSIVE DecimalToNat(_)
DecimalToNat(s) ==
  IF Len(s) = 0 THEN 0
  ELSE 10 * DecimalToNat(SubSeq(s, 1, Len(s) - 1)) + DigitVal(Ch(s, Len(s)))

\* the stored text as a counter; ok is FALSE when it is no short integer literal
SrvCounter(text) ==
  LET p == ParseI64(text)
  IN  IF ~p.ok \/ Len(p.val) > 6 THEN [ok |-> FALSE, n |-> 0]
      ELSE IF Ch(p.val, 1) = "-"
           THEN [ok |-> TRUE, n |-> 0 - DecimalToNat(SubSeq(p.val, 2, Len(p.val)))]
           ELSE [ok |-> TRUE, n |-> DecimalToNat(p.val)]

\* the fields of  key "value" [ttl] ; ok is FALSE when the line is not that
SrvSetFields(rest) ==
  LET sp    == Find(rest, {" "})
      key   == SubSeq(rest, 1, sp - 1)
      after == SubSeq(rest, sp + 1, Len(rest))
      body  == SubSeq(after, 2, Len(after))
      q     == Find(body, {"\""})
      value == SubSeq(body, 1, q - 1)
      tail  == SubSeq(body, q + 1, Len(body))
      ok    == /\ sp > 1
               /\ SrvKeyOk(key)
               /\ Len(after) >= 2
               /\ Ch(after, 1) = "\""
               /\ q > 0
               /\ \/ tail = ""
                  \/ /\ Len(tail) >= 2
                     /\ Ch(tail, 1) = " "
                     /\ AllDigits(SubSeq(tail, 2, Len(tail)))
  IN  IF ok THEN [ok |-> TRUE, key |-> key, value |-> value, ttl |-> tail # ""]
      ELSE [ok |-> FALSE, key |-> "", value |-> "", ttl |-> FALSE]

\* the store is a set of entries, at most one per key
SrvHas(st, k) == \E e \in st : e.key = k

SrvGet(st, k) == CHOOSE e \in st : e.key = k

SrvRemove(st, k) == {e \in st : e.key # k}

SrvPut(st, k, v, ttl) == SrvRemove(st, k) \cup {[key |-> k, val |-> v, ttl |-> ttl]}

SrvEmpty == {}

\* the bound on the server's counters
SrvWithinBound(st) ==
  \A e \in st :
    \/ ~SrvCounter(e.val).ok
    \/ /\ 0 - MaxCounter <= SrvCounter(e.val).n
       /\ SrvCounter(e.val).n <= MaxCounter

SrvOut(reply, st, quit) == [reply |-> reply, store |-> st, quit |-> quit]

\* INCR / DECR: an absent key counts from 0; the key keeps its time to live
SrvAdd(st, k, d) ==
  LET cur == IF SrvHas(st, k) THEN SrvCounter(SrvGet(st, k).val) ELSE [ok |-> TRUE, n |-> 0]
      ttl == IF SrvHas(st, k) THEN SrvGet(st, k).ttl ELSE FALSE
  IN  IF ~cur.ok THEN {SrvOut(<<"ERROR">>, st, FALSE)}
      ELSE {SrvOut(<<ToDecimal(cur.n + d)>>, SrvPut(st, k, ToDecimal(cur.n + d), ttl), FALSE)}

\* what the server may do with one command line: its reply (<<>> for none),
\* the store afterwards, and whether it closes the connection
SrvOutcomes(cmdline, st) ==
  LET sp   == Find(cmdline, {" "})
      verb == IF sp = 0 THEN cmdline ELSE SubSeq(cmdline, 1, sp - 1)
      rest == IF sp = 0 THEN "" ELSE SubSeq(cmdline, sp + 1, Len(cmdline))
      bad  == {SrvOut(<<"ERROR">>, st, FALSE)}
  IN  CASE verb = "SET" ->
             LET f == SrvSetFields(rest)
             IN  IF f.ok THEN {SrvOut(<<"OK">>, SrvPut(st, f.key, f.value, f.ttl), FALSE)}
                 ELSE bad
        [] verb = "GET" ->
             IF ~SrvKeyOk(rest) THEN bad
             ELSE IF SrvHas(st, rest)
                  THEN {SrvOut(<<"\"" \o SrvGet(st, rest).val \o "\"">>, st, FALSE)}
                  ELSE {SrvOut(<<"(nil)">>, st, FALSE)}
        [] verb = "DELETE" ->
             IF ~SrvKeyOk(rest) THEN bad
             ELSE IF SrvHas(st, rest)
                  THEN {SrvOut(<<"OK">>, SrvRemove(st, rest), FALSE)}
                  ELSE {SrvOut(<<"OK">>, st, FALSE), SrvOut(<<"NOT_FOUND">>, st, FALSE)}
        [] verb = "EXISTS" ->
             IF ~SrvKeyOk(rest) THEN bad
             ELSE {SrvOut(<<IF SrvHas(st, rest) THEN "1" ELSE "0">>, st, FALSE)}
        [] verb = "INCR" -> IF ~SrvKeyOk(rest) THEN bad ELSE SrvAdd(st, rest, 1)
        [] verb = "DECR" -> IF ~SrvKeyOk(rest) THEN bad ELSE SrvAdd(st, rest, -1)
        [] verb = "SIZE" ->
             IF sp # 0 THEN bad
             ELSE {SrvOut(<<NatToDecimal(Cardinality(st)) \o " keys">>, st, FALSE)}
        [] verb = "CLEAR" -> IF sp # 0 THEN bad ELSE {SrvOut(<<"OK">>, SrvEmpty, FALSE)}
        [] verb = "QUIT" ->
             IF sp # 0 THEN bad
             ELSE {SrvOut(<<"OK">>, st, TRUE), SrvOut(<<>>, st, TRUE)}
        [] OTHER -> bad

(***************************************************************************)
(* State.                                                                  *)
(***************************************************************************)
VARIABLES
  callers,    \* the threads of control that use the client
  locked,     \* TRUE: a whole operation runs under mutual exclusion (&mut self)
  pc,         \* per thread: "idle", or "reading" inside send_command's read_line
  op,         \* per thread: the operation it runs or ran last
  raw,        \* per thread: send_command's local `response` before the trim
  rd,         \* per thread: how read_line ended: "none", "line", "eof", "err"
  ret,        \* per thread: what its last operation returned
  held,       \* the NubDB value still owns its TcpStream (it is not yet dropped)
  c2s,        \* bytes written by the client that the server has not read yet
  s2c,        \* bytes written by the server that the client has not read yet
  conn,       \* "open", "peerClosed" (the server closed its end), "reset"
  store,      \* the server's keys, while the connection reaches them
  usizeMax,   \* usize::MAX of the build, as text
  owed,       \* history: command lines sent whose reply lines are unread and
              \* in flight or still to come
  ahead,      \* history, per thread: command lines sent before its own whose
              \* replies were unread when it read (0: it read its own reply;
              \* -1: another thread had taken its reply)
  injected,   \* history: a call whose key or value holds a line break was sent
  closed,     \* history: a close() has returned Ok
  wasClosed,  \* history, per thread: `closed` when its operation was called
  expect,     \* history, per thread: when its operation is a get(key) called
              \* right after its set(key, value, None), that value; when it
              \* is an incr or decr of a key, the counter before the call if
              \* known: "0" for a key never set or counted, or deleted, else
              \* what the incr or decr of the same key right before returned
  touched     \* history, per well-formed key, of the commands sent: "never";
              \* "set": a set since the last delete that returned true;
              \* "counted": no set but an incr or decr since then;
              \* "deleted": nothing since a delete returned true

client == <<pc, op, raw, rd, ret, held>>
wire == <<c2s, s2c, conn>>
build == <<callers, locked, usizeMax>>
history == <<owed, ahead, injected, closed, wasClosed, expect, touched>>
vars == <<client, wire, store, build, history>>

Just(text) == [some |-> TRUE, text |-> text]
Nothing == [some |-> FALSE, text |-> ""]

InitWith(maxMags, who, locks) ==
  /\ callers \in who
  /\ locked \in locks
  /\ pc = [c \in Threads |-> "idle"]
  /\ op = [c \in Threads |-> NoCall]
  /\ raw = [c \in Threads |-> ""]
  /\ rd = [c \in Threads |-> "none"]
  /\ ret = [c \in Threads |-> NoResult]
  /\ held = TRUE
  /\ c2s = ""
  /\ s2c = ""
  /\ conn = "open"
  /\ store = SrvEmpty
  /\ usizeMax \in maxMags
  /\ owed = 0
  /\ ahead = [c \in Threads |-> 0]
  /\ injected = FALSE
  /\ closed = FALSE
  /\ wasClosed = [c \in Threads |-> FALSE]
  /\ expect = [c \in Threads |-> Nothing]
  /\ touched = [k \in GoodKeys |-> "never"]

\* one caller, as &mut self has it
InitBut(maxMags) == InitWith(maxMags, {{1}}, {TRUE})

\* a 64-bit build in front of the key-value server, whose counts are small
Init == InitBut({U64MaxMag})

\* a 32-bit or a 64-bit build in front of a server of unknown behaviour
InitAny == InitBut({U32MaxMag, U64MaxMag})

(***************************************************************************)
(* The client: a public operation is a call of send_command (write, flush; *)
(* then read_line, trim) followed by its decoder.                          *)
(***************************************************************************)
\* a client handed out without the exclusive borrow
MayCall_Unguarded(c) ==
  /\ c \in callers
  /\ held
  /\ pc[c] = "idle"

MayCall(c) ==
  /\ c \in callers
  /\ held
  /\ pc[c] = "idle"
  /\ locked => \A d \in Threads : pc[d] = "idle"

\* what a command that goes out to the server adds to the history
TouchOnSend(o) ==
  IF o.key \notin GoodKeys THEN touched
  ELSE IF o.name = "set" THEN [touched EXCEPT ![o.key] = "set"]
  ELSE IF o.name \in {"incr", "decr"} /\ touched[o.key] # "set"
       THEN [touched EXCEPT ![o.key] = "counted"]
       ELSE touched

\* what every call records
Called(c, o) ==
  /\ op' = [op EXCEPT ![c] = o]
  /\ raw' = [raw EXCEPT ![c] = ""]
  /\ rd' = [rd EXCEPT ![c] = "none"]
  /\ wasClosed' = [wasClosed EXCEPT ![c] = closed]
  /\ expect' = [expect EXCEPT ![c] =
                  IF /\ o.name = "get"
                     /\ op[c].name = "set"
                     /\ op[c].key = o.key
                     /\ op[c].ttl = <<>>
                  THEN Just(op[c].value)
                  ELSE IF /\ o.name \in {"incr", "decr"}
                          /\ o.key \in GoodKeys
                          /\ touched[o.key] \in {"never", "deleted"}
                  THEN Just("0")
                  ELSE IF /\ o.name \in {"incr", "decr"}
                          /\ op[c].name \in {"incr", "decr"}
                          /\ op[c].key = o.key
                          /\ ret[c].tag = "Ok"
                  THEN Just(ret[c].val)
                  ELSE Nothing]

\* the operation's writeln! and flush succeed; the thread goes on to read_line
CallSend(c, o) ==
  /\ MayCall(c)
  /\ conn \in {"open", "peerClosed"}
  /\ LET bytes == WireBytes(Command(o))
         sent  == IF conn = "open" THEN CountLines(bytes) ELSE 0
     IN  /\ owed + sent <= MaxOwed
         /\ c2s' = IF conn = "open" THEN c2s \o bytes ELSE c2s
         /\ owed' = owed + sent
         /\ injected' = (injected \/ (conn = "open" /\ HasBreak(o)))
  /\ touched' = IF conn = "open" THEN TouchOnSend(o) ELSE touched
  /\ Called(c, o)
  /\ pc' = [pc EXCEPT ![c] = "reading"]
  /\ ret' = [ret EXCEPT ![c] = NoResult]
  /\ ahead' = [ahead EXCEPT ![c] = owed]
  /\ UNCHANGED <<held, s2c, conn, store, build, closed>>

\* the write fails and the error is dropped: the operation goes on to read
CallWriteFails_ReadsOn(c, o) ==
  /\ MayCall(c)
  /\ conn \in {"peerClosed", "reset"}
  /\ Called(c, o)
  /\ pc' = [pc EXCEPT ![c] = "reading"]
  /\ ret' = [ret EXCEPT ![c] = NoResult]
  /\ ahead' = [ahead EXCEPT ![c] = 0]
  /\ UNCHANGED <<held, wire, store, build, owed, injected, closed, touched>>

\* the write fails (`?` on line 24 or 25): the operation returns the error at
\* once, nothing is read
CallWriteFails(c, o) ==
  /\ MayCall(c)
  /\ conn \in {"peerClosed", "reset"}
  /\ Called(c, o)
  /\ ret' = [ret EXCEPT ![c] =
               Err(IF conn = "reset" THEN "ConnectionReset" ELSE "BrokenPipe")]
  /\ ahead' = [ahead EXCEPT ![c] = 0]
  /\ UNCHANGED <<pc, held, wire, store, build, owed, injected, closed, touched>>

\* the operation of thread c returns r, having read rawv
Return(c, how, rawv, r) ==
  /\ pc' = [pc EXCEPT ![c] = "idle"]
  /\ raw' = [raw EXCEPT ![c] = rawv]
  /\ rd' = [rd EXCEPT ![c] = how]
  /\ ret' = [ret EXCEPT ![c] = r]
  /\ closed' = (closed \/ (op[c].name = "close" /\ r.tag = "Ok"))
  /\ touched' = IF /\ op[c].name = "delete"
                   /\ r = OkBool(TRUE)
                   /\ op[c].key \in GoodKeys
                THEN [touched EXCEPT ![op[c].key] = "deleted"] ELSE touched
  /\ UNCHANGED <<op, held, conn, store, build, injected, wasClosed, expect>>

\* read_line returns a complete line
RecvLine(c) ==
  /\ pc[c] = "reading"
  /\ ReadLineLen(s2c) > 0
  /\ LET n    == ReadLineLen(s2c)
         rawv == SubSeq(s2c, 1, n)
     IN  /\ s2c' = SubSeq(s2c, n + 1, Len(s2c))
         /\ Return(c, "line", rawv, Decode(op[c], Response(rawv), usizeMax))
  /\ owed' = owed - 1
  /\ ahead' = [d \in Threads |->
                 IF d # c /\ pc[d] = "reading"
                 THEN (IF ahead[d] > 0 THEN ahead[d] - 1 ELSE -1)
                 ELSE ahead[d]]
  /\ UNCHANGED c2s

\* a read_line whose count of 0 bytes is turned into an error
RecvEof_Fails(c) ==
  /\ pc[c] = "reading"
  /\ ReadLineLen(s2c) = 0
  /\ conn = "peerClosed"
  /\ s2c' = ""
  /\ Return(c, "eof", s2c, Err("UnexpectedEof"))
  /\ UNCHANGED <<c2s, owed, ahead>>

\* a read_line that waits on at the end of the stream
RecvEof_Waits(c) ==
  /\ pc[c] = "reading"
  /\ ReadLineLen(s2c) = 0
  /\ conn = "peerClosed"
  /\ UNCHANGED vars

\* read_line meets the end of the stream: it returns Ok with what was left,
\* and send_command goes on as after a line
RecvEof(c) ==
  /\ pc[c] = "reading"
  /\ ReadLineLen(s2c) = 0
  /\ conn = "peerClosed"
  /\ s2c' = ""
  /\ Return(c, "eof", s2c, Decode(op[c], Response(s2c), usizeMax))
  /\ UNCHANGED <<c2s, owed, ahead>>

\* read_line fails (`?` on line 28)
RecvErr(c) ==
  /\ pc[c] = "reading"
  /\ conn = "reset"
  /\ Return(c, "err", "", Err("ConnectionReset"))
  /\ UNCHANGED <<c2s, s2c, owed, ahead>>

\* the NubDB value goes out of scope, once the caller has closed it: its
\* TcpStream handles are closed
Drop ==
  /\ held
  /\ closed
  /\ \A c \in Threads : pc[c] = "idle"
  /\ held' = FALSE
  /\ c2s' = ""
  /\ s2c' = ""
  /\ UNCHANGED <<pc, op, raw, rd, ret, conn, store, build, history>>

(***************************************************************************)
(* The server and the network.                                             *)
(***************************************************************************)
Min(a, b) == IF a < b THEN a ELSE b

\* the first command line the server has not read yet; "" with Pending FALSE
Pending == Find(c2s, {"\n"}) > 0
PendingLine == SubSeq(c2s, 1, Find(c2s, {"\n"}) - 1)
AfterPending == SubSeq(c2s, Find(c2s, {"\n"}) + 1, Len(c2s))

\* the key-value server takes one command line and answers it
ServerHandle ==
  /\ conn = "open"
  /\ held
  /\ Pending
  /\ \E out \in SrvOutcomes(PendingLine, store) :
       /\ SrvWithinBound(out.store)
       /\ store' = IF out.quit THEN SrvEmpty ELSE out.store
       /\ s2c' = IF out.reply = <<>> THEN s2c ELSE s2c \o out.reply[1] \o "\n"
       /\ c2s' = IF out.quit THEN "" ELSE AfterPending
       /\ conn' = IF out.quit THEN "peerClosed" ELSE conn
       /\ owed' = IF out.quit THEN CountLines(s2c') ELSE owed
  /\ UNCHANGED <<client, build, ahead, injected, closed, wasClosed, expect, touched>>

\* a server of unknown behaviour takes one command line and answers it with
\* one line of its choosing
ServerAnswers ==
  /\ conn = "open"
  /\ held
  /\ Pending
  /\ \E r \in ReplyLines : s2c' = s2c \o r \o "\n"
  /\ c2s' = AfterPending
  /\ UNCHANGED <<client, conn, store, build, history>>

\* the connection ends while reply r is being written: part of the line, then
\* the end of the stream
DiesWriting(r) ==
  /\ \E k \in 1..Min(Len(r), MaxPartial) : s2c' = s2c \o SubSeq(r, 1, k)
  /\ c2s' = ""
  /\ conn' = "peerClosed"
  /\ store' = SrvEmpty
  /\ owed' = CountLines(s2c)
  /\ UNCHANGED <<client, build, ahead, injected, closed, wasClosed, expect, touched>>

ServerDiesReplying ==
  /\ conn = "open"
  /\ held
  /\ Pending
  /\ \E r \in {out.reply[1] :
                 out \in {o \in SrvOutcomes(PendingLine, store) : o.reply # <<>>}} :
       DiesWriting(r)

ServerDiesAnswering ==
  /\ conn = "open"
  /\ held
  /\ Pending
  /\ \E r \in ReplyLines : DiesWriting(r)

\* the server closes the connection
ServerCloses ==
  /\ conn = "open"
  /\ held
  /\ c2s' = ""
  /\ conn' = "peerClosed"
  /\ store' = SrvEmpty
  /\ owed' = CountLines(s2c)
  /\ UNCHANGED <<client, s2c, build, ahead, injected, closed, wasClosed, expect, touched>>

\* the connection breaks: what was in flight is lost, reads and writes fail
\* from now on
NetReset ==
  /\ conn \in {"open", "peerClosed"}
  /\ held
  /\ c2s' = ""
  /\ s2c' = ""
  /\ conn' = "reset"
  /\ store' = SrvEmpty
  /\ owed' = 0
  /\ UNCHANGED <<client, build, ahead, injected, closed, wasClosed, expect, touched>>

\* a key with a time to live expires
Expire ==
  /\ conn = "open"
  /\ held
  /\ \E e \in store :
       /\ e.ttl
       /\ store' = SrvRemove(store, e.key)
  /\ UNCHANGED <<client, wire, build, history>>

\* the client against the key-value server
Next ==
  \/ \E c \in Threads, o \in Calls : CallSend(c, o)
  \/ \E c \in Threads, o \in Calls : CallWriteFails(c, o)
  \/ \E c \in Threads : RecvLine(c)
  \/ \E c \in Threads : RecvEof(c)
  \/ \E c \in Threads : RecvErr(c)
  \/ Drop
  \/ ServerHandle
  \/ ServerDiesReplying
  \/ ServerCloses
  \/ NetReset
  \/ Expire

Spec == Init /\ [][Next]_vars

\* a blocked read_line returns once the stream has a line, its end or an error
\* for it: the thread is not held back by anything in the client
Recv(c) == RecvLine(c) \/ RecvEof(c) \/ RecvErr(c)

LiveCalls ==
  {Call("set", "a", "x", <<>>), Call("get", "a", "", <<>>), Call("close", "", "", <<>>)}

NextLive ==
  \/ \E c \in Threads, o \in LiveCalls : CallSend(c, o)
  \/ \E c \in Threads, o \in LiveCalls : CallWriteFails(c, o)
  \/ \E c \in Threads : Recv(c)
  \/ ServerHandle
  \/ ServerDiesReplying
  \/ ServerCloses
  \/ NetReset

SpecLive == Init /\ [][NextLive]_vars /\ \A c \in Threads : WF_vars(Recv(c))

\* the client against a server of unknown behaviour
NextAny ==
  \/ \E c \in Threads, o \in AnyCalls : CallSend(c, o)
  \/ \E c \in Threads, o \in AnyCalls : CallWriteFails(c, o)
  \/ \E c \in Threads : RecvLine(c)
  \/ \E c \in Threads : RecvEof(c)
  \/ \E c \in Threads : RecvErr(c)
  \/ Drop
  \/ ServerAnswers
  \/ ServerDiesAnswering
  \/ ServerCloses
  \/ NetReset

SpecAny == InitAny /\ [][NextAny]_vars

\* two threads of control share the client, with a lock around each whole
\* operation or without one
InitShared == InitWith({U64MaxMag}, {{1, 2}}, BOOLEAN)

SharedCalls ==
  {Call("set", "a", "x", <<>>), Call("get", "a", "", <<>>), Call("incr", "a", "", <<>>)}

NextShared ==
  \/ \E c \in Threads, o \in SharedCalls : CallSend(c, o)
  \/ \E c \in Threads : RecvLine(c)
  \/ ServerHandle

SpecShared == InitShared /\ [][NextShared]_vars

(***************************************************************************)
(* Properties.                                                             *)
(***************************************************************************)
\* the operation of thread c has returned
Returned(c) == pc[c] = "idle" /\ op[c] # NoCall /\ ret[c] # NoResult

\* ... after read_line gave it a complete reply line
Answered(c) == Returned(c) /\ rd[c] = "line"

\* one command line out, one reply line in, the reply being the one to this
\* very command, and nothing left over on the way back
OneForOne(c) ==
  /\ CountLines(WireBytes(Command(op[c]))) = 1
  /\ CountLines(raw[c]) = 1
  /\ ahead[c] = 0
  /\ owed = 0
  /\ s2c = ""

DataOps == {"set", "get", "delete", "exists", "incr", "decr", "size", "clear"}

\* C1 as stated: whatever the arguments, each of the eight data operations
\* that was answered wrote exactly one command line and read exactly one
\* reply line, the reply to its own command, leaving no reply behind.
C1_AnyArguments ==
  \A c \in Threads :
    (Answered(c) /\ op[c].name \in DataOps) => OneForOne(c)

\* C1, amended: as long as no key or value passed so far holds a line break,
\* each of the eight data operations that was answered wrote exactly one
\* command line and read exactly one reply line, the reply to its own
\* command, leaving no reply behind.
C1_OneReplyPerCommand ==
  \A c \in Threads :
    (Answered(c) /\ op[c].name \in DataOps /\ ~injected) => OneForOne(c)

\* a get that follows a set, answered by the value just stored
C1_Witness ==
  \E c \in Threads :
    /\ Answered(c)
    /\ ~injected
    /\ op[c] = Call("get", "a", "", <<>>)
    /\ ret[c] = OkSome("x")
    /\ OneForOne(c)

\* C2: when the stream ends before a full reply line has come, no operation
\* returns a successful result (send_command fails, with a ProtocolError).
C2_EofFails ==
  \A c \in Threads :
    (Returned(c) /\ rd[c] = "eof") => ret[c].tag = "Err"

\* C3: an operation called after close() has returned gives no successful
\* value (it fails, with a TransportError).
C3_ClosedFails ==
  \A c \in Threads :
    (Returned(c) /\ wasClosed[c]) => ret[c].tag = "Err"

\* C4: close() on an open connection writes the line QUIT, reads the reply
\* if there is one, returns success, and has released the stream by then.
C4_CloseReleases ==
  \A c \in Threads :
    (Returned(c) /\ op[c].name = "close" /\ ~wasClosed[c] /\ ret[c].tag = "Ok")
      => /\ WireBytes(Command(op[c])) = "QUIT\n"
         /\ ret[c] = OkUnit
         /\ ~held

\* C5: a second close(), called after a first one has succeeded, fails (with
\* a ConnectionError).
C5_SecondCloseFails ==
  \A c \in Threads :
    (Returned(c) /\ op[c].name = "close" /\ wasClosed[c]) => ret[c].tag = "Err"

\* a value the wire format can carry: no double quote, no line break
PlainValue(v) == Find(v, {"\"", "\n", "\r"}) = 0

\* a key the command grammar can carry: one token, not empty
PlainKey(k) == Len(k) > 0 /\ \A i \in 1..Len(k) : ~IsWs(Ch(k, i))

\* the get of thread c came right after its set of the same key with a plain
\* value and no time to live, and was answered
SetThenGet(c) ==
  /\ Answered(c)
  /\ op[c].name = "get"
  /\ expect[c].some
  /\ PlainValue(expect[c].text)
  /\ ~injected

\* C6 as stated: for every key, set(key, value, None) followed by get(key)
\* returns Some(value), the value having no double quote and no line break.
C6_EveryKey ==
  \A c \in Threads : SetThenGet(c) => ret[c] = OkSome(expect[c].text)

\* C6, amended: for every key that is one non-empty token without white
\* space, on a client that was passed no line break so far, set(key, value,
\* None) followed by get(key) returns Some(value), the value having no
\* double quote and no line break.
C6_RoundTrip ==
  \A c \in Threads :
    (SetThenGet(c) /\ PlainKey(op[c].key)) => ret[c] = OkSome(expect[c].text)

\* a value with blanks at both ends comes back unchanged
C6_Witness ==
  \E c \in Threads :
    /\ SetThenGet(c)
    /\ op[c].key = "a"
    /\ expect[c].text = " y "
    /\ ret[c] = OkSome(" y ")

\* get and exists of thread c report its key absent
ReportsAbsent(c) ==
  /\ op[c].name = "get" => ret[c] = OkNone
  /\ op[c].name = "exists" => ret[c] = OkBool(FALSE)

\* an answered get or exists of a well-formed key, no line break passed so far
AsksFor(c) ==
  /\ Answered(c)
  /\ op[c].name \in {"get", "exists"}
  /\ op[c].key \in GoodKeys
  /\ ~injected

\* C7 as stated: get returns None and exists returns false for a key never
\* set, or not set again since a delete of it returned true, whatever other
\* operations were issued in between.
C7_WhateverBetween ==
  \A c \in Threads :
    (AsksFor(c) /\ touched[op[c].key] # "set") => ReportsAbsent(c)

\* C7, amended: get returns None and exists returns false for a key never
\* set, incremented or decremented, or not since a delete of it returned
\* true, the key being one token and no line break having been passed.
C7_Absence ==
  \A c \in Threads :
    (AsksFor(c) /\ touched[op[c].key] \in {"never", "deleted"}) => ReportsAbsent(c)

\* a get answered None after a delete of its key returned true
C7_Witness ==
  \E c \in Threads :
    /\ AsksFor(c)
    /\ op[c].name = "get"
    /\ touched[op[c].key] = "deleted"
    /\ ret[c] = OkNone

\* a digit string without its leading zeros, one digit kept
RECURSIVE StripZeros(_)
StripZeros(d) ==
  IF Len(d) > 1 /\ Ch(d, 1) = "0" THEN StripZeros(SubSeq(d, 2, Len(d))) ELSE d

\* a line without its white space at both ends, picked by position
Inner(line) ==
  LET solid == {i \in 1..Len(line) : ~IsWs(Ch(line, i))}
  IN  IF solid = {} THEN ""
      ELSE SubSeq(line, CHOOSE i \in solid : \A j \in solid : i <= j,
                        CHOOSE i \in solid : \A j \in solid : i >= j)

\* the digits of a literal, its sign taken off
Unsigned(t, signs) ==
  IF Len(t) > 0 /\ Ch(t, 1) \in signs THEN SubSeq(t, 2, Len(t)) ELSE t

\* t is a decimal literal of a signed 64-bit integer: an optional sign, one
\* or more digits, a value within -2^63 .. 2^63 - 1
IsI64Literal(t) ==
  LET d == Unsigned(t, {"+", "-"})
  IN  /\ Len(d) > 0
      /\ AllDigits(d)
      /\ MagLeq(StripZeros(d), IF Ch(t, 1) = "-" THEN I64MinMag ELSE I64MaxMag)

\* the integer such a literal denotes, in canonical decimal
I64Denoted(t) ==
  LET m == StripZeros(Unsigned(t, {"+", "-"}))
  IN  IF Ch(t, 1) = "-" /\ m # "0" THEN "-" \o m ELSE m

\* C8: incr and decr return the signed 64-bit integer the reply line denotes,
\* and fail with a DecodeError (io::ErrorKind::InvalidData) for every reply
\* line that is no literal of one: never another integer, never a crash.
C8_CounterDecode ==
  \A c \in Threads :
    (Answered(c) /\ op[c].name \in {"incr", "decr"}) =>
      LET t == Inner(raw[c])
      IN  IF IsI64Literal(t)
          THEN ret[c] = Ok("i64", I64Denoted(t))
          ELSE ret[c].tag = "Err" /\ ErrClass(ret[c]) = "DecodeError"

\* the reply 2^63, one past the largest value, is refused
C8_Witness ==
  \E c \in Threads :
    /\ Answered(c)
    /\ op[c].name = "decr"
    /\ raw[c] = "9223372036854775808\n"
    /\ ret[c] = Err("InvalidData")

\* the line is the character 1 and white space around it, nothing else
IsJustOne(line) ==
  \E i \in 1..Len(line) :
    /\ Ch(line, i) = "1"
    /\ \A j \in (1..Len(line)) \ {i} : IsWs(Ch(line, j))

\* C9: exists returns true if and only if the trimmed reply line is exactly
\* the text 1, and false, never an error, for every other reply line.
C9_ExistsDecode ==
  \A c \in Threads :
    (Answered(c) /\ op[c].name = "exists") => ret[c] = OkBool(IsJustOne(raw[c]))

\* the reply 0 gives false
C9_Witness ==
  \E c \in Threads :
    /\ Answered(c)
    /\ op[c].name = "exists"
    /\ raw[c] = "0\n"
    /\ ret[c] = OkBool(FALSE)

\* the first white-space-separated token of the line, "" when it has none
FirstWord(line) ==
  LET solid == {i \in 1..Len(line) : ~IsWs(Ch(line, i))}
  IN  IF solid = {} THEN ""
      ELSE LET b == CHOOSE i \in solid : \A j \in solid : i <= j
               e == CHOOSE i \in b..Len(line) :
                      /\ \A j \in b..i : j \in solid
                      /\ i + 1 \notin solid
           IN  SubSeq(line, b, e)

\* w is a decimal literal of a non-negative integer the build's usize holds:
\* an optional plus sign, one or more digits
IsUsizeLiteral(w, maxMag) ==
  LET d == Unsigned(w, {"+"})
  IN  Len(d) > 0 /\ AllDigits(d) /\ MagLeq(StripZeros(d), maxMag)

\* C10: size returns the non-negative integer that the first token of the
\* reply line denotes, whatever follows it; 0 when the reply line is empty;
\* and fails with a DecodeError when the first token is no such integer.
C10_SizeDecode ==
  \A c \in Threads :
    (Answered(c) /\ op[c].name = "size") =>
      LET w == FirstWord(raw[c])
      IN  IF w = "" THEN ret[c] = Ok("usize", "0")
          ELSE IF IsUsizeLiteral(w, usizeMax)
               THEN ret[c] = Ok("usize", StripZeros(Unsigned(w, {"+"})))
               ELSE ret[c].tag = "Err" /\ ErrClass(ret[c]) = "DecodeError"

\* the reply "3 keys" gives 3
C10_Witness ==
  \E c \in Threads :
    /\ Answered(c)
    /\ op[c].name = "size"
    /\ raw[c] = "3 keys\n"
    /\ ret[c] = Ok("usize", "3")

\* the line from its first to its last character that is neither white space
\* nor a double quote; "" when it has none
Unquoted(line) ==
  LET solid == {i \in 1..Len(line) : ~IsWs(Ch(line, i)) /\ Ch(line, i) # "\""}
  IN  IF solid = {} THEN ""
      ELSE SubSeq(line, CHOOSE i \in solid : \A j \in solid : i <= j,
                        CHOOSE i \in solid : \A j \in solid : i >= j)

IsJustOK(line) ==
  \E i \in 1..(Len(line) - 1) :
    /\ SubSeq(line, i, i + 1) = "OK"
    /\ \A j \in (1..Len(line)) \ {i, i + 1} : IsWs(Ch(line, j))

\* C12: set, delete and clear each return true if and only if the trimmed
\* reply line is exactly OK, and false, never an error, for every other one.
C12_OkDecode ==
  \A c \in Threads :
    (Answered(c) /\ op[c].name \in {"set", "delete", "clear"})
      => ret[c] = OkBool(IsJustOK(raw[c]))

\* the reply ok, in lower case, gives false
C12_Witness ==
  \E c \in Threads :
    /\ Answered(c)
    /\ op[c].name = "clear"
    /\ raw[c] = "ok\n"
    /\ ret[c] = OkBool(FALSE)

\* the integer a short canonical decimal text denotes
IntOf(text) ==
  IF Ch(text, 1) = "-" THEN 0 - DecimalToNat(SubSeq(text, 2, Len(text)))
  ELSE DecimalToNat(text)

\* an answered incr or decr of a key whose counter before the call is known
CountsOn(c) ==
  /\ Answered(c)
  /\ op[c].name \in {"incr", "decr"}
  /\ expect[c].some
  /\ ~injected

\* C13: against the key-value server each incr returns the counter's previous
\* value plus one and each decr the previous value minus one, in the order
\* of the calls, an absent key counting as 0: incr, incr, decr on an absent
\* key return 1, 2, 1.
C13_CounterSteps ==
  \A c \in Threads :
    CountsOn(c) =>
      ret[c] = Ok("i64", ToDecimal(IntOf(expect[c].text)
                                     + (IF op[c].name = "incr" THEN 1 ELSE -1)))

\* the decr that returns 1 after an incr has returned 2
C13_Witness ==
  \E c \in Threads :
    /\ CountsOn(c)
    /\ op[c].name = "decr"
    /\ expect[c].text = "2"
    /\ ret[c] = Ok("i64", "1")

\* what thread c sees of its own operation
Own(c) == <<pc[c], op[c], raw[c], rd[c], ret[c]>>

\* this step is a call of thread c whose write or flush fails: always so on a
\* connection that was reset, and whenever the call ends in an error at once
WriteFails(c) ==
  /\ pc[c] = "idle"
  /\ Own(c)' # Own(c)
  /\ conn = "reset" \/ ret'[c].tag = "Err"

\* this step is the failing read_line of thread c
ReadFails(c) ==
  /\ pc[c] = "reading"
  /\ Own(c)' # Own(c)
  /\ conn = "reset"

\* C14: an operation whose write or flush fails returns that error in the
\* same step, having read nothing and written nothing more; one whose read
\* fails returns that error in the same step, its command not sent again.
C14_FirstErrorReturns ==
  [][\A c \in Threads :
       /\ WriteFails(c) =>
            /\ pc'[c] = "idle"
            /\ ErrClass(ret'[c]) = "TransportError"
            /\ rd'[c] = "none"
            /\ raw'[c] = ""
            /\ UNCHANGED <<c2s, s2c, owed>>
       /\ ReadFails(c) =>
            /\ pc'[c] = "idle"
            /\ ret'[c] = Err("ConnectionReset")
            /\ rd'[c] = "err"
            /\ UNCHANGED <<c2s, s2c, owed>>]_vars

\* an operation has returned the error of its write, nothing read
C14_Witness ==
  \E c \in Threads :
    /\ Returned(c)
    /\ ret[c] = Err("BrokenPipe")
    /\ rd[c] = "none"
    /\ raw[c] = ""

\* thread c was answered by the reply to another command than its own
Crossed(c) == Answered(c) /\ ahead[c] # 0 /\ ~injected

\* C15: a caller is answered by the reply to the other caller's command only
\* when the two threads run their operations on the client without mutual
\* exclusion; with each whole operation under mutual exclusion no such state
\* is reachable.
C15_CrossedOnlyUnlocked ==
  \A c \in Threads : Crossed(c) => ~locked

\* without the lock, the get of one thread is answered by the OK that belongs
\* to the set of the other
C15_Witness ==
  \E c \in Threads :
    /\ Crossed(c)
    /\ ~locked
    /\ op[c].name = "get"
    /\ ret[c] = OkSome("OK")

\* the fields joined by single blanks
RECURSIVE Joined(_)
Joined(fields) ==
  IF Len(fields) = 1 THEN fields[1]
  ELSE fields[1] \o " " \o Joined(Tail(fields))

Verb(name) ==
  CASE name = "set" -> "SET" [] name = "get" -> "GET" [] name = "delete" -> "DELETE"
    [] name = "exists" -> "EXISTS" [] name = "incr" -> "INCR" [] name = "decr" -> "DECR"
    [] name = "size" -> "SIZE" [] name = "clear" -> "CLEAR" [] name = "close" -> "QUIT"

\* the fields of the command line of a call, by the protocol's grammar
Fields(o) ==
  <<Verb(o.name)>>
    \o (IF o.name \in {"size", "clear", "close"} THEN <<>> ELSE <<o.key>>)
    \o (IF o.name = "set" THEN <<"\"" \o o.value \o "\"">> ELSE <<>>)
    \o (IF o.ttl = <<>> THEN <<>> ELSE <<NatToDecimal(o.ttl[1])>>)

\* C16: the step in which an operation goes on to read its reply has put on
\* the open connection exactly its command line (SET key "value" [t], VERB
\* key, or SIZE, CLEAR, QUIT alone) followed by exactly one line feed.
C16_CommandLines ==
  [][\A c \in Threads :
       (pc[c] = "idle" /\ pc'[c] = "reading" /\ conn = "open")
         => c2s' = c2s \o Joined(Fields(op'[c])) \o "\n"]_vars

\* a set with a time to live is on the wire and its caller waits for the reply
C16_Witness ==
  \E c \in Threads :
    /\ pc[c] = "reading"
    /\ op[c] = Call("set", "a", "x", <<30>>)
    /\ c2s = "SET a \"x\" 30\n"

\* the stream has something for a blocked read_line: a line, its end, an error
Readable == ReadLineLen(s2c) > 0 \/ conn # "open"

\* C17: an operation that waits for its reply returns once the server has
\* sent a reply line or the stream has ended or failed; and it returns in no
\* other way: while the server is silent and the stream open it stays blocked.
C17_BlocksUntilReply ==
  /\ \A c \in Threads : (pc[c] = "reading" /\ Readable) ~> (pc[c] = "idle")
  /\ [][\A c \in Threads : (pc[c] = "reading" /\ pc'[c] = "idle") => Readable]_vars

\* an operation has returned because the server closed the stream
C17_Witness ==
  \E c \in Threads :
    /\ Returned(c)
    /\ rd[c] = "eof"
    /\ conn = "peerClosed"
    /\ op[c].name = "get"

\* the incr, decr or size of thread c was answered and failed to decode
DecodeFailed(c) ==
  /\ Answered(c)
  /\ op[c].name \in {"incr", "decr", "size"}
  /\ ErrClass(ret[c]) = "DecodeError"
  /\ ~injected

\* C18: when incr, decr or size fails with a DecodeError its one reply line
\* is consumed and nothing is left on the way back, and the operation called
\* next on the open connection has no reply but its own to read.
C18_DecodeFailureKeepsStep ==
  /\ [](\A c \in Threads :
          DecodeFailed(c) => (CountLines(raw[c]) = 1 /\ s2c = "" /\ owed = 0))
  /\ [][\A c \in Threads :
          (DecodeFailed(c) /\ pc'[c] = "reading" /\ conn = "open")
            => (ahead'[c] = 0 /\ s2c' = "" /\ owed' = 1)]_vars

\* size has failed on a reply whose first token is no count
C18_Witness ==
  \E c \in Threads :
    /\ DecodeFailed(c)
    /\ op[c].name = "size"
    /\ raw[c] = "x 3\n"
    /\ s2c = ""

\* C19: an operation whose key or value holds a line break puts two command
\* lines on the wire and reads one reply line; every operation answered after
\* it reads the reply to an earlier command line, and while the connection
\* is open a reply stays left over: the client does not catch up.
C19_ShiftedForGood ==
  \A c \in Threads :
    (Answered(c) /\ injected) =>
      /\ conn = "open" => owed >= 1
      /\ IF HasBreak(op[c])
         THEN CountLines(WireBytes(Command(op[c]))) = 2 /\ CountLines(raw[c]) = 1
         ELSE ahead[c] >= 1

\* after get("a\nb"), get("a") is answered by the ERROR that the second line
\* of the first call earned
C19_Witness ==
  \E c \in Threads :
    /\ Answered(c)
    /\ injected
    /\ op[c] = Call("get", "a", "", <<>>)
    /\ ahead[c] = 1
    /\ ret[c] = OkSome("ERROR")

\* what each operation makes of nothing
OfNothing(name) ==
  CASE name \in {"set", "delete", "clear", "exists"} -> OkBool(FALSE)
    [] name = "get" -> OkSome("")
    [] name = "size" -> Ok("usize", "0")
    [] name = "close" -> OkUnit
    [] name \in {"incr", "decr"} -> Err("InvalidData")

\* read_line gave thread c no bytes at the end of the stream
ReadNothing(c) == Returned(c) /\ rd[c] = "eof" /\ raw[c] = ""

\* read_line gave thread c a reply line that is empty or blank
ReadBlank(c) == Answered(c) /\ \A i \in 1..Len(raw[c]) : IsWs(Ch(raw[c], i))

\* C20: when the read yields no bytes because the peer closed the stream the
\* operation returns what it returns for an empty reply line: false for set,
\* delete, clear and exists, Some of the empty string for get, 0 for size,
\* success for close, and an error for incr and decr alone.
C20_EofIsEmptyReply ==
  \A c \in Threads :
    (ReadNothing(c) \/ ReadBlank(c)) => ret[c] = OfNothing(op[c].name)

\* a get that met the end of the stream returns Some of the empty string
C20_Witness ==
  \E c \in Threads :
    /\ ReadNothing(c)
    /\ op[c].name = "get"
    /\ ret[c] = OkSome("")
====
